---- MODULE Spec2Model ----
(***************************************************************************)
(* Model of OCR_Trans.py: per-page text extraction with OCR fallback       *)
(* (extract_text_with_ocr), paragraph-aware chunking (chunk_text), chunk   *)
(* translation and reassembly (translate_text) and the /translate request  *)
(* handler (translate_pdf_endpoint); and of text_trans.py: its /translate  *)
(* request handler (translate_pdf).                                        *)
(*                                                                         *)
(* A Python str is a sequence of one-character strings. The characters are *)
(* those a TLA+ string can hold: the escapes \t, \n, \f and \r, and every   *)
(* character the TLA+ lexer takes inside a string (code points from U+2000 *)
(* on are not among them).                                                 *)
(***************************************************************************)
EXTENDS Integers, Sequences, FiniteSets, TLC

VARIABLES
    pc,               \* position of the running call
    s, max_len,       \* chunk_text: arguments
    paragraphs, idx,  \* chunk_text: the paragraph list and the for-loop position
    chunks, buf, cur, \* chunk_text: locals
    text,             \* translate_text: argument
    translated_parts, \* translate_text: local
    calls,            \* the chunks handed to translator.translate, in call order
    result,           \* outcome of the call: none yet, a return value, or a raise
    req,              \* the request, and the application (module) that serves it
    doc,              \* the uploaded document: per page its native text and what OCR reads
    pno, parts,       \* extract_text_with_ocr: 1-based loop position and locals
    ocr_calls,        \* the pages handed to pytesseract.image_to_string, in call order
    english_text,     \* translate_pdf_endpoint: local
    tmp_path,         \* translate_pdf_endpoint, translate_pdf: local
    tmp_exists,       \* whether the temporary file is on disk
    exc,              \* the exception in flight inside the try block
    status, body      \* the response

chunkVars == <<s, max_len, paragraphs, idx, buf, cur>>
trVars == <<text, translated_parts, calls>>
epVars == <<req, doc, pno, parts, ocr_calls, english_text, tmp_path, tmp_exists,
            exc, status, body>>

vars == <<pc, chunks, result, chunkVars, trVars, epVars>>

-----------------------------------------------------------------------------
(* Bounds of the model *)

MaxTextLen == 5   \* longest text enumerated character by character
MaxParas == 3     \* most paragraphs of a text built from paragraphs
MaxParaLen == 7   \* longest paragraph of a text built from paragraphs
MaxMaxLen == 6    \* largest max_len handed to chunk_text
MaxBlocks == 4    \* most paragraphs of a text handed to translate_text
MaxPages == 2     \* most pages of an uploaded document

-----------------------------------------------------------------------------
(* Python str helpers *)

NL == "\n"
SEP == <<NL, NL>>

FF == "\f"

Alphabet == {"a", " ", NL, FF}

\* the other characters c with c.isspace(), written as the character itself:
\* vertical tab U+000B, the separators U+001C to U+001F, next line U+0085,
\* no-break space U+00A0 and ogham space mark U+1680
VT == ""
FS == ""
GS == ""
RS == ""
US == ""
NEL == ""
NBSP == " "
OGHAM == " "

\* the characters str.strip() and str.split() take for whitespace. Python's
\* remaining ones (U+2000 to U+200A, U+2028, U+2029, U+202F, U+205F, U+3000)
\* cannot occur in a string of this module.
IsSpace(c) == c \in {" ", NL, "\t", "\r", FF, VT, FS, GS, RS, US, NEL, NBSP, OGHAM}

Min2(a, b) == IF a <= b THEN a ELSE b

SetMin(S) == CHOOSE x \in S : \A y \in S : x <= y

\* str.strip(): scan over the leading and the trailing whitespace
RECURSIVE FirstKept(_, _)
FirstKept(str, k) ==
    IF k > Len(str) \/ ~IsSpace(str[k]) THEN k ELSE FirstKept(str, k + 1)

RECURSIVE LastKept(_, _)
LastKept(str, k) ==
    IF k < 1 \/ ~IsSpace(str[k]) THEN k ELSE LastKept(str, k - 1)

Strip(str) == SubSeq(str, FirstKept(str, 1), LastKept(str, Len(str)))

\* str.split("\n\n") from position k on: leftmost, non-overlapping separators
RECURSIVE SplitFrom(_, _)
SplitFrom(str, k) ==
    LET at == {j \in k..(Len(str) - 1) : str[j] = NL /\ str[j + 1] = NL}
    IN  IF at = {} THEN <<SubSeq(str, k, Len(str))>>
        ELSE <<SubSeq(str, k, SetMin(at) - 1)>> \o SplitFrom(str, SetMin(at) + 2)

Split(str) == SplitFrom(str, 1)

\* "\n\n".join(list)
RECURSIVE Join(_)
Join(list) ==
    IF list = <<>> THEN <<>>
    ELSE IF Len(list) = 1 THEN list[1]
    ELSE list[1] \o SEP \o Join(Tail(list))

\* "".join(list)
RECURSIVE Concat(_)
Concat(list) == IF list = <<>> THEN <<>> ELSE list[1] \o Concat(Tail(list))

\* [x for x in list if x]
RECURSIVE NonEmpty(_)
NonEmpty(list) ==
    IF list = <<>> THEN <<>>
    ELSE IF list[1] = <<>> THEN NonEmpty(Tail(list))
    ELSE <<list[1]>> \o NonEmpty(Tail(list))

-----------------------------------------------------------------------------
(* chunk_text *)

\* paragraphs = [p.strip() for p in s.split("\n\n") if p.strip()]
Paragraphs(str) ==
    LET raw == Split(str)
    IN  NonEmpty([k \in 1..Len(raw) |-> Strip(raw[k])])

\* if len(p) > max_len
IsHugeOffByOne(p, m) == Len(p) > m + 1
IsHuge(p, m) == Len(p) > m

\* the while loop of the hard split, from `start` (0-based) on
RECURSIVE HardSplitFrom(_, _, _)
HardSplitFrom(p, start, m) ==
    IF start < Len(p)
    THEN LET end == Min2(start + m, Len(p))
         IN  <<SubSeq(p, start + 1, end)>> \o HardSplitFrom(p, end, m)
    ELSE <<>>

HardSplit(p, m) == HardSplitFrom(p, 0, m)

\* cur + len(p) + (2 if buf else 0) <= max_len
Fits(c, b, p, m) == c + Len(p) + (IF b # <<>> THEN 2 ELSE 0) <= m

\* buf.append(p); cur += len(p) + (2 if buf else 0): buf is read after the append
CurAfterAppend(c, b, p) ==
    LET b2 == Append(b, p)
    IN  c + Len(p) + (IF b2 # <<>> THEN 2 ELSE 0)

\* chunks.append("\n\n".join(buf))
FlushLast(ch, b) == Append(ch, b[Len(b)])
Flush(ch, b) == Append(ch, Join(b))

\* one iteration of `for p in paragraphs` on the locals st = [chunks, buf, cur]
LoopBody(st, p, m) ==
    IF IsHuge(p, m)
    THEN [chunks |-> (IF st.buf # <<>> THEN Flush(st.chunks, st.buf) ELSE st.chunks)
                     \o HardSplit(p, m),
          buf |-> <<>>, cur |-> 0]
    ELSE IF Fits(st.cur, st.buf, p, m)
    THEN [chunks |-> st.chunks, buf |-> Append(st.buf, p),
          cur |-> CurAfterAppend(st.cur, st.buf, p)]
    ELSE [chunks |-> Flush(st.chunks, st.buf), buf |-> <<p>>, cur |-> Len(p)]

RECURSIVE LoopFrom(_, _, _, _)
LoopFrom(st, ps, k, m) ==
    IF k > Len(ps) THEN st ELSE LoopFrom(LoopBody(st, ps[k], m), ps, k + 1, m)

\* if buf: chunks.append(...); return chunks
AfterLoop(st) == IF st.buf # <<>> THEN Flush(st.chunks, st.buf) ELSE st.chunks

chunk_text(str, m) ==
    IF str = <<>> THEN <<>>
    ELSE AfterLoop(LoopFrom([chunks |-> <<>>, buf |-> <<>>, cur |-> 0],
                            Paragraphs(str), 1, m))

-----------------------------------------------------------------------------
(* chunk_text, one loop iteration per step *)

NoResult == [kind |-> "none"]
Returned(v) == [kind |-> "return", value |-> v]

\* every text over the alphabet up to MaxTextLen characters
ShortTexts == UNION {[1..n -> Alphabet] : n \in 0..MaxTextLen}

Rep(c, n) == [k \in 1..n |-> c]

\* texts of up to MaxParas paragraphs of up to MaxParaLen letters, blank-line separated
ParagraphTexts ==
    LET lens == UNION {[1..n -> 1..MaxParaLen] : n \in 1..MaxParas}
    IN  {Join([k \in 1..Len(l) |-> Rep("a", l[k])]) : l \in lens}

Texts == ShortTexts \cup ParagraphTexts

ChunkIdle ==
    /\ s = <<>>
    /\ max_len = 0
    /\ paragraphs = <<>>
    /\ idx = 0
    /\ buf = <<>>
    /\ cur = 0

TranslateIdle ==
    /\ text = <<>>
    /\ translated_parts = <<>>
    /\ calls = <<>>

EndpointIdle ==
    /\ req = [app |-> "none", has_file |-> FALSE, filename |-> <<>>,
               dpi_is_int |-> FALSE]
    /\ doc = [opens |-> FALSE, pages |-> <<>>]
    /\ pno = 0
    /\ parts = <<>>
    /\ ocr_calls = <<>>
    /\ english_text = <<>>
    /\ tmp_path = "None"
    /\ tmp_exists = FALSE
    /\ exc = "none"
    /\ status = 0
    /\ body = <<>>

InitChunk ==
    /\ pc = "chunk_entry"
    /\ s \in Texts
    \* a text with a paragraph and max_len <= 0 never leaves the hard split
    /\ max_len \in (IF Paragraphs(s) = <<>> THEN 0..MaxMaxLen ELSE 1..MaxMaxLen)
    /\ paragraphs = <<>>
    /\ idx = 0
    /\ chunks = <<>>
    /\ buf = <<>>
    /\ cur = 0
    /\ result = NoResult
    /\ TranslateIdle
    /\ EndpointIdle

\* if not s: return []
ChunkEmpty ==
    /\ pc = "chunk_entry"
    /\ s = <<>>
    /\ pc' = "chunk_done"
    /\ result' = Returned(<<>>)
    /\ UNCHANGED <<s, max_len, paragraphs, idx, chunks, buf, cur, trVars, epVars>>

\* paragraphs = [...]; chunks = []; buf = []; cur = 0
ChunkSplit ==
    /\ pc = "chunk_entry"
    /\ s # <<>>
    /\ paragraphs' = Paragraphs(s)
    /\ idx' = 1
    /\ chunks' = <<>>
    /\ buf' = <<>>
    /\ cur' = 0
    /\ pc' = "chunk_loop"
    /\ UNCHANGED <<s, max_len, result, trVars, epVars>>

Locals == [chunks |-> chunks, buf |-> buf, cur |-> cur]

\* the paragraph is longer than max_len: flush, hard split, continue
ChunkHardSplit ==
    /\ pc = "chunk_loop"
    /\ idx <= Len(paragraphs)
    /\ IsHuge(paragraphs[idx], max_len)
    /\ chunks' = LoopBody(Locals, paragraphs[idx], max_len).chunks
    /\ buf' = LoopBody(Locals, paragraphs[idx], max_len).buf
    /\ cur' = LoopBody(Locals, paragraphs[idx], max_len).cur
    /\ idx' = idx + 1
    /\ UNCHANGED <<pc, s, max_len, paragraphs, result, trVars, epVars>>

\* the paragraph fits: it joins the buffer
ChunkAppend ==
    /\ pc = "chunk_loop"
    /\ idx <= Len(paragraphs)
    /\ ~IsHuge(paragraphs[idx], max_len)
    /\ Fits(cur, buf, paragraphs[idx], max_len)
    /\ chunks' = LoopBody(Locals, paragraphs[idx], max_len).chunks
    /\ buf' = LoopBody(Locals, paragraphs[idx], max_len).buf
    /\ cur' = LoopBody(Locals, paragraphs[idx], max_len).cur
    /\ idx' = idx + 1
    /\ UNCHANGED <<pc, s, max_len, paragraphs, result, trVars, epVars>>

\* the paragraph does not fit: the buffer is flushed and restarted with it
ChunkFlush ==
    /\ pc = "chunk_loop"
    /\ idx <= Len(paragraphs)
    /\ ~IsHuge(paragraphs[idx], max_len)
    /\ ~Fits(cur, buf, paragraphs[idx], max_len)
    /\ chunks' = LoopBody(Locals, paragraphs[idx], max_len).chunks
    /\ buf' = LoopBody(Locals, paragraphs[idx], max_len).buf
    /\ cur' = LoopBody(Locals, paragraphs[idx], max_len).cur
    /\ idx' = idx + 1
    /\ UNCHANGED <<pc, s, max_len, paragraphs, result, trVars, epVars>>

\* if buf: chunks.append("\n\n".join(buf)); return chunks
ChunkReturn ==
    /\ pc = "chunk_loop"
    /\ idx > Len(paragraphs)
    /\ chunks' = AfterLoop(Locals)
    /\ result' = Returned(chunks')
    /\ pc' = "chunk_done"
    /\ UNCHANGED <<s, max_len, paragraphs, idx, buf, cur, trVars, epVars>>

NextChunkText ==
    \/ ChunkEmpty
    \/ ChunkSplit
    \/ ChunkHardSplit
    \/ ChunkAppend
    \/ ChunkFlush
    \/ ChunkReturn

SpecChunk == InitChunk /\ [][NextChunkText]_vars

-----------------------------------------------------------------------------
(* translate_text *)

\* chunk_text(text, max_len=4500)
TranslateMaxLen == 4500

Raised == [kind |-> "raise"]

\* GoogleTranslator.translate on a chunk it accepts: every letter is put
\* into the target language, layout characters stay.
TranslateChar(c) ==
    CASE c = "a" -> "A"
      [] c = "b" -> "B"
      [] c = "c" -> "C"
      [] c = "d" -> "D"
      [] OTHER -> c

GoogleTranslate(chunk) == [k \in 1..Len(chunk) |-> TranslateChar(chunk[k])]

\* translated_parts.append(translator.translate(chunk))
PrependPart(list, x) == <<x>> \o list
AppendPart(list, x) == Append(list, x)

\* return "\n\n".join(translated_parts)
JoinParts(list) == Join(list)

\* paragraph sizes around max_len = 4500: some share a chunk, some do not,
\* and one is hard split into three slices
BlockSizes == {1000, 3000, 10000}
BlockLetters == <<"a", "b", "c", "d">>

\* the k-th paragraph is written in the k-th letter (the letters wrap around)
BlockTexts ==
    LET sizes == UNION {[1..n -> BlockSizes] : n \in 1..MaxBlocks}
        letter(k) == BlockLetters[((k - 1) % Len(BlockLetters)) + 1]
    IN  {Join([k \in 1..Len(z) |-> Rep(letter(k), z[k])]) : z \in sizes}

TranslateTexts == {<<>>, <<" ", NL, NL, " ">>} \cup BlockTexts

InitTranslate ==
    /\ pc = "translate_entry"
    /\ text \in TranslateTexts
    /\ translated_parts = <<>>
    /\ calls = <<>>
    /\ chunks = <<>>
    /\ result = NoResult
    /\ ChunkIdle
    /\ EndpointIdle

\* (a variant that hands the empty text to the translator)
TranslateEmptyCallsTranslator ==
    /\ pc = "translate_entry"
    /\ text = <<>>
    /\ calls' = Append(calls, text)
    /\ result' = Returned(GoogleTranslate(text))
    /\ pc' = "translate_done"
    /\ UNCHANGED <<chunks, chunkVars, text, translated_parts, epVars>>

\* if not text: return ""
TranslateEmpty ==
    /\ pc = "translate_entry"
    /\ text = <<>>
    /\ result' = Returned(<<>>)
    /\ pc' = "translate_done"
    /\ UNCHANGED <<chunks, chunkVars, trVars, epVars>>

\* translator = GoogleTranslator(...); translated_parts = []; chunk_text(text, max_len=4500)
TranslateStart ==
    /\ pc = "translate_entry"
    /\ text # <<>>
    /\ chunks' = chunk_text(text, TranslateMaxLen)
    /\ translated_parts' = <<>>
    /\ pc' = "translate_loop"
    /\ UNCHANGED <<result, text, calls, chunkVars, epVars>>

\* the chunk the for loop is at
NextChunk == chunks[Len(calls) + 1]

\* translated_parts.append(translator.translate(chunk)), the call succeeding
TranslateChunk ==
    /\ pc = "translate_loop"
    /\ Len(calls) < Len(chunks)
    /\ calls' = Append(calls, NextChunk)
    /\ translated_parts' = AppendPart(translated_parts, GoogleTranslate(NextChunk))
    /\ UNCHANGED <<pc, chunks, result, text, chunkVars, epVars>>

\* translator.translate(chunk) raises: nothing catches it in translate_text
TranslateChunkFails ==
    /\ pc = "translate_loop"
    /\ Len(calls) < Len(chunks)
    /\ calls' = Append(calls, NextChunk)
    /\ result' = Raised
    /\ pc' = "translate_raised"
    /\ UNCHANGED <<chunks, text, translated_parts, chunkVars, epVars>>

\* return "\n\n".join(translated_parts)
TranslateReturn ==
    /\ pc = "translate_loop"
    /\ Len(calls) = Len(chunks)
    /\ result' = Returned(JoinParts(translated_parts))
    /\ pc' = "translate_done"
    /\ UNCHANGED <<chunks, chunkVars, trVars, epVars>>

NextTranslate ==
    \/ TranslateEmpty
    \/ TranslateStart
    \/ TranslateChunk
    \/ TranslateChunkFails
    \/ TranslateReturn

SpecTranslate == InitTranslate /\ [][NextTranslate]_vars

-----------------------------------------------------------------------------
(* extract_text_with_ocr *)

\* if meaningful_len < 40
OcrThreshold == 40

\* meaningful_len = len("".join(text.split()))
MeaningfulLen(str) == Cardinality({k \in 1..Len(str) : ~IsSpace(str[k])})

NeedsOcrInclusive(str) == MeaningfulLen(str) <= OcrThreshold
NeedsOcr(str) == MeaningfulLen(str) < OcrThreshold

\* str(n) for n >= 0
Digit(n) == <<"0", "1", "2", "3", "4", "5", "6", "7", "8", "9">>[n + 1]

RECURSIVE Decimal(_)
Decimal(n) == IF n < 10 THEN <<Digit(n)>> ELSE Decimal(n \div 10) \o <<Digit(n % 10)>>

\* f"\n\n===== Page {i+1} =====\n{text.strip()}", i the 0-based page index
PageSectionZeroBased(i, str) ==
    <<NL, NL, "=", "=", "=", "=", "=", " ", "P", "a", "g", "e", " ">>
        \o Decimal(i) \o <<" ", "=", "=", "=", "=", "=", NL>> \o Strip(str)
PageSection(i, str) ==
    <<NL, NL, "=", "=", "=", "=", "=", " ", "P", "a", "g", "e", " ">>
        \o Decimal(i + 1) \o <<" ", "=", "=", "=", "=", "=", NL>> \o Strip(str)

\* return "".join(parts).strip()
ExtractResult(list) == Strip(Concat(list))

-----------------------------------------------------------------------------
(* translate_pdf_endpoint *)

\* page.get_text("text"): nothing, 39 letters among whitespace (with a
\* no-break space, and the form feed PyMuPDF and tesseract put at the end of a
\* page), 40 letters,
\* and a page that alone exceeds the translator's chunk size
NativeTexts ==
    { <<>>,
      <<" ", NL>> \o Rep("b", 20) \o <<NL, NL, " ">> \o Rep("b", 19) \o <<NBSP, NL, FF>>,
      Rep("c", 40),
      Rep("d", 4490) }

\* pytesseract.image_to_string on the rendered page
OcrTexts == { <<>>, <<VT, " ", "a", "a", NL, NL, NL, "a", " ", "a", NL, FF>> }

Pages == [native : NativeTexts, ocr : OcrTexts]

Documents ==
    [opens : BOOLEAN, pages : UNION {[1..n -> Pages] : n \in 0..MaxPages}]

PdfName == <<"x", ".", "p", "d", "f">>
UpperPdfName == <<"X", ".", "P", "D", "F">>
MixedPdfName == <<"a", ".", "P", "d", "f">>
AccentPdfName == <<"É", ".", "p", "D", "f">>
TxtName == <<"x", ".", "t", "x", "t">>

\* the two applications, each with its own POST /translate
Apps == {"OCR_Trans", "text_trans"}

Requests ==
    [app : Apps, has_file : BOOLEAN,
     filename : {<<>>, TxtName, PdfName, UpperPdfName, MixedPdfName,
                 AccentPdfName},
     dpi_is_int : BOOLEAN]

\* f.filename.lower().endswith(".pdf"). str.lower() gives every character at
\* least one character, gives "." for "." alone, "p" for "p" and "P" alone,
\* "d" for "d" and "D" alone, and "f" for "f" and "F" alone: the lowered name
\* ends in ".pdf" exactly when the name ends in these four characters.
EndsWithPdf(name) ==
    /\ Len(name) >= 4
    /\ name[Len(name) - 3] = "."
    /\ name[Len(name) - 2] \in {"p", "P"}
    /\ name[Len(name) - 1] \in {"d", "D"}
    /\ name[Len(name)] \in {"f", "F"}

\* translate_pdf_endpoint: the checks before the try block, each ending in
\* abort(400, ...)
BadRequest(r) ==
    \/ ~r.has_file
    \/ r.filename = <<>>
    \/ ~EndsWithPdf(r.filename)
    \/ ~r.dpi_is_int

\* translate_pdf: the same checks but for dpi, which it does not read
BadPdfRequest(r) ==
    \/ ~r.has_file
    \/ r.filename = <<>>
    \/ ~EndsWithPdf(r.filename)

\* the request fails the checks of the application it is sent to
Rejected(r) == IF r.app = "OCR_Trans" THEN BadRequest(r) ELSE BadPdfRequest(r)

\* a request that fails a check never has its document read
InitEndpoint ==
    /\ pc = "endpoint_entry"
    /\ req \in Requests
    /\ doc \in Documents
    /\ Rejected(req) => doc = [opens |-> FALSE, pages |-> <<>>]
    \* the documents are gone through under one accepted request per application
    /\ (req.filename # PdfName \/ ~req.dpi_is_int) => doc.pages = <<>>
    /\ pno = 0
    /\ parts = <<>>
    /\ ocr_calls = <<>>
    /\ english_text = <<>>
    /\ tmp_path = "None"
    /\ tmp_exists = FALSE
    /\ exc = "none"
    /\ status = 0
    /\ body = <<>>
    /\ chunks = <<>>
    /\ result = NoResult
    /\ ChunkIdle
    /\ TranslateIdle

\* abort(400, ...): outside the try block, no temporary file yet
EndpointReject ==
    /\ pc = "endpoint_entry"
    /\ req.app = "OCR_Trans"
    /\ BadRequest(req)
    /\ status' = 400
    /\ pc' = "endpoint_done"
    /\ UNCHANGED <<chunks, result, chunkVars, trVars, req, doc, pno, parts, ocr_calls,
                   english_text, tmp_path, tmp_exists, exc, body>>

\* tmp_path = None; NamedTemporaryFile(delete=False); f.save(tmp.name); tmp_path = tmp.name
EndpointSave ==
    /\ pc = "endpoint_entry"
    /\ req.app = "OCR_Trans"
    /\ ~BadRequest(req)
    /\ tmp_exists' = TRUE
    /\ tmp_path' = "tmp.pdf"
    /\ pc' = "extract_open"
    /\ UNCHANGED <<chunks, result, chunkVars, trVars, req, doc, pno, parts, ocr_calls,
                   english_text, exc, status, body>>

\* NamedTemporaryFile(delete=False) has made the file, f.save(tmp.name) raises:
\* tmp_path is still None
EndpointSaveFails ==
    /\ pc = "endpoint_entry"
    /\ req.app = "OCR_Trans"
    /\ ~BadRequest(req)
    /\ tmp_exists' = TRUE
    /\ exc' = "save"
    /\ pc' = "endpoint_except"
    /\ UNCHANGED <<chunks, result, chunkVars, trVars, req, doc, pno, parts, ocr_calls,
                   english_text, tmp_path, status, body>>

\* doc = fitz.open(pdf_path); parts = []
ExtractOpen ==
    /\ pc = "extract_open"
    /\ doc.opens
    /\ parts' = <<>>
    /\ pno' = 1
    /\ pc' = "extract_loop"
    /\ UNCHANGED <<chunks, result, chunkVars, trVars, req, doc, ocr_calls,
                   english_text, tmp_path, tmp_exists, exc, status, body>>

\* fitz.open(pdf_path) raises on a file that is no document
ExtractOpenFails ==
    /\ pc = "extract_open"
    /\ ~doc.opens
    /\ exc' = "open"
    /\ pc' = "endpoint_except"
    /\ UNCHANGED <<chunks, result, chunkVars, trVars, req, doc, pno, parts, ocr_calls,
                   english_text, tmp_path, tmp_exists, status, body>>

\* a page with enough native text: parts.append(header + text.strip())
ExtractPageNative ==
    /\ pc = "extract_loop"
    /\ pno <= Len(doc.pages)
    /\ ~NeedsOcr(doc.pages[pno].native)
    /\ parts' = Append(parts, PageSection(pno - 1, doc.pages[pno].native))
    /\ pno' = pno + 1
    /\ UNCHANGED <<pc, chunks, result, chunkVars, trVars, req, doc, ocr_calls,
                   english_text, tmp_path, tmp_exists, exc, status, body>>

\* a page with too little native text: rasterize, OCR, text = ocr_text
ExtractPageOcr ==
    /\ pc = "extract_loop"
    /\ pno <= Len(doc.pages)
    /\ NeedsOcr(doc.pages[pno].native)
    /\ ocr_calls' = Append(ocr_calls, pno)
    /\ parts' = Append(parts, PageSection(pno - 1, doc.pages[pno].ocr))
    /\ pno' = pno + 1
    /\ UNCHANGED <<pc, chunks, result, chunkVars, trVars, req, doc,
                   english_text, tmp_path, tmp_exists, exc, status, body>>

\* english_text = extract_text_with_ocr(...): return "".join(parts).strip()
ExtractReturn ==
    /\ pc = "extract_loop"
    /\ pno > Len(doc.pages)
    /\ english_text' = ExtractResult(parts)
    /\ pc' = "endpoint_check"
    /\ UNCHANGED <<chunks, result, chunkVars, trVars, req, doc, pno, parts, ocr_calls,
                   tmp_path, tmp_exists, exc, status, body>>

\* if not english_text.strip(): abort(422, ...): the HTTPException is raised
\* inside the try block
EndpointEmpty ==
    /\ pc = "endpoint_check"
    /\ Strip(english_text) = <<>>
    /\ exc' = "http422"
    /\ pc' = "endpoint_except"
    /\ UNCHANGED <<chunks, result, chunkVars, trVars, req, doc, pno, parts, ocr_calls,
                   english_text, tmp_path, tmp_exists, status, body>>

\* translated = translate_text(english_text, target=target)
EndpointTranslate ==
    /\ pc = "endpoint_check"
    /\ Strip(english_text) # <<>>
    /\ text' = english_text
    /\ pc' = "translate_entry"
    /\ UNCHANGED <<chunks, result, chunkVars, translated_parts, calls, epVars>>

\* the exception of translator.translate leaves translate_text
EndpointTranslateRaised ==
    /\ pc = "translate_raised"
    /\ exc' = "translate"
    /\ pc' = "endpoint_except"
    /\ UNCHANGED <<chunks, result, chunkVars, trVars, req, doc, pno, parts, ocr_calls,
                   english_text, tmp_path, tmp_exists, status, body>>

\* return translated, 200, {...}
EndpointRespond ==
    /\ pc = "translate_done"
    /\ status' = 200
    /\ body' = result.value
    /\ pc' = "endpoint_finally"
    /\ UNCHANGED <<chunks, result, chunkVars, trVars, req, doc, pno, parts, ocr_calls,
                   english_text, tmp_path, tmp_exists, exc>>

\* the body of abort(500, f"Translation failed: {e}")
FailureBody == <<"Translation failed">>

\* (a variant that answers with what was translated before the failure)
EndpointExceptPartial ==
    /\ pc = "endpoint_except"
    /\ status' = 200
    /\ body' = JoinParts(translated_parts)
    /\ pc' = "endpoint_finally"
    /\ UNCHANGED <<chunks, result, chunkVars, trVars, req, doc, pno, parts, ocr_calls,
                   english_text, tmp_path, tmp_exists, exc>>

\* except Exception as e: abort(500, ...): HTTPException is an Exception,
\* so the 422 of abort(422, ...) is caught here as well
EndpointExcept ==
    /\ pc = "endpoint_except"
    /\ status' = 500
    /\ body' = FailureBody
    /\ pc' = "endpoint_finally"
    /\ UNCHANGED <<chunks, result, chunkVars, trVars, req, doc, pno, parts, ocr_calls,
                   english_text, tmp_path, tmp_exists, exc>>

\* finally: if tmp_path and os.path.exists(tmp_path): os.remove(tmp_path)
EndpointFinally ==
    /\ pc = "endpoint_finally"
    /\ tmp_exists' = IF tmp_path # "None" /\ tmp_exists THEN FALSE ELSE tmp_exists
    /\ pc' = "endpoint_done"
    /\ UNCHANGED <<chunks, result, chunkVars, trVars, req, doc, pno, parts, ocr_calls,
                   english_text, tmp_path, exc, status, body>>

-----------------------------------------------------------------------------
(* text_trans.py: translate_pdf *)

\* abort(400, ...): outside the try block, no temporary file yet
TranslatePdfReject ==
    /\ pc = "endpoint_entry"
    /\ req.app = "text_trans"
    /\ BadPdfRequest(req)
    /\ status' = 400
    /\ pc' = "pdf_done"
    /\ UNCHANGED <<chunks, result, chunkVars, trVars, req, doc, pno, parts, ocr_calls,
                   english_text, tmp_path, tmp_exists, exc, body>>

\* tmp_path = None; NamedTemporaryFile(delete=False); file.save(tmp.name); tmp_path = tmp.name
TranslatePdfSave ==
    /\ pc = "endpoint_entry"
    /\ req.app = "text_trans"
    /\ ~BadPdfRequest(req)
    /\ tmp_exists' = TRUE
    /\ tmp_path' = "tmp.pdf"
    /\ pc' = "pdf_translate"
    /\ UNCHANGED <<chunks, result, chunkVars, trVars, req, doc, pno, parts, ocr_calls,
                   english_text, exc, status, body>>

\* NamedTemporaryFile(delete=False) has made the file, file.save(tmp.name)
\* raises: tmp_path is still None
TranslatePdfSaveFails ==
    /\ pc = "endpoint_entry"
    /\ req.app = "text_trans"
    /\ ~BadPdfRequest(req)
    /\ tmp_exists' = TRUE
    /\ exc' = "save"
    /\ pc' = "pdf_except"
    /\ UNCHANGED <<chunks, result, chunkVars, trVars, req, doc, pno, parts, ocr_calls,
                   english_text, tmp_path, status, body>>

\* what translator.translate_file is handed
FileCall == <<"translate_file">>

\* translator.translate_file on a file it accepts: the text of the file, translated
TranslateFile(d) ==
    GoogleTranslate(Concat([k \in 1..Len(d.pages) |-> d.pages[k].native]))

\* translated_text = translator.translate_file(tmp_path); return translated_text, 200, {...}
TranslatePdfTranslateFile ==
    /\ pc = "pdf_translate"
    /\ calls' = Append(calls, FileCall)
    /\ status' = 200
    /\ body' = TranslateFile(doc)
    /\ pc' = "pdf_finally"
    /\ UNCHANGED <<chunks, result, chunkVars, text, translated_parts, req, doc, pno,
                   parts, ocr_calls, english_text, tmp_path, tmp_exists, exc>>

\* translator.translate_file(tmp_path) raises
TranslatePdfTranslateFileFails ==
    /\ pc = "pdf_translate"
    /\ calls' = Append(calls, FileCall)
    /\ exc' = "translate"
    /\ pc' = "pdf_except"
    /\ UNCHANGED <<chunks, result, chunkVars, text, translated_parts, req, doc, pno,
                   parts, ocr_calls, english_text, tmp_path, tmp_exists, status, body>>

\* except Exception as e: abort(500, f"Translation failed: {e}")
TranslatePdfExcept ==
    /\ pc = "pdf_except"
    /\ status' = 500
    /\ body' = FailureBody
    /\ pc' = "pdf_finally"
    /\ UNCHANGED <<chunks, result, chunkVars, trVars, req, doc, pno, parts, ocr_calls,
                   english_text, tmp_path, tmp_exists, exc>>

\* finally: if tmp_path and os.path.exists(tmp_path): os.remove(tmp_path)
TranslatePdfFinally ==
    /\ pc = "pdf_finally"
    /\ tmp_exists' = IF tmp_path # "None" /\ tmp_exists THEN FALSE ELSE tmp_exists
    /\ pc' = "pdf_done"
    /\ UNCHANGED <<chunks, result, chunkVars, trVars, req, doc, pno, parts, ocr_calls,
                   english_text, tmp_path, exc, status, body>>

\* a POST /translate to either application
NextEndpoint ==
    \/ EndpointReject
    \/ EndpointSave
    \/ EndpointSaveFails
    \/ ExtractOpen
    \/ ExtractOpenFails
    \/ ExtractPageNative
    \/ ExtractPageOcr
    \/ ExtractReturn
    \/ EndpointEmpty
    \/ EndpointTranslate
    \/ TranslateStart
    \/ TranslateChunk
    \/ TranslateChunkFails
    \/ TranslateReturn
    \/ EndpointTranslateRaised
    \/ EndpointRespond
    \/ EndpointExcept
    \/ EndpointFinally
    \/ TranslatePdfReject
    \/ TranslatePdfSave
    \/ TranslatePdfSaveFails
    \/ TranslatePdfTranslateFile
    \/ TranslatePdfTranslateFileFails
    \/ TranslatePdfExcept
    \/ TranslatePdfFinally

SpecEndpoint == InitEndpoint /\ [][NextEndpoint]_vars

\* chunk_text and translate_text, each called on its own
InitCalls == InitChunk \/ InitTranslate

NextCalls == NextChunkText \/ NextTranslate

SpecCalls == InitCalls /\ [][NextCalls]_vars

-----------------------------------------------------------------------------
(* Properties of chunk_text *)

\* ceil(n / m)
CeilDiv(n, m) == (n + m - 1) \div m

\* the paragraph the loop handled last
LastPara == paragraphs[idx - 1]

\* the chunks the last iteration's hard split appended
LastSlices ==
    SubSeq(chunks, Len(chunks) - CeilDiv(Len(LastPara), max_len) + 1, Len(chunks))

JustHardSplit ==
    /\ pc = "chunk_loop"
    /\ idx > 1
    /\ Len(LastPara) > max_len

\* C1: every chunk chunk_text produces is at most max_len characters long,
\* and the slices of a hard-split paragraph are each exactly max_len long,
\* but for the last, which is the non-empty remainder (at most max_len).
C1_ChunkSizeBound ==
    /\ \A k \in 1..Len(chunks) : Len(chunks[k]) <= max_len
    /\ result.kind = "return" =>
          \A k \in 1..Len(result.value) : Len(result.value[k]) <= max_len
    /\ JustHardSplit =>
          LET n == CeilDiv(Len(LastPara), max_len)
          IN  /\ Len(chunks) >= n
              /\ \A k \in 1..(n - 1) : Len(LastSlices[k]) = max_len
              /\ Len(LastSlices[n]) = Len(LastPara) - (n - 1) * max_len
              /\ Len(LastSlices[n]) \in 1..max_len

\* a paragraph was cut into three or more slices with a shorter remainder
C1_Witness ==
    /\ JustHardSplit
    /\ CeilDiv(Len(LastPara), max_len) >= 3
    /\ Len(chunks[Len(chunks)]) < max_len
    /\ Len(chunks[Len(chunks) - 1]) = max_len

\* ch covers the paragraphs ps, each once and in order: a paragraph longer
\* than m is the concatenation of the next ceil(len/m) chunks, any other chunk
\* splits on the blank-line separator into the next paragraphs, whole.
RECURSIVE Covers(_, _, _)
Covers(ch, ps, m) ==
    IF ps = <<>> THEN ch = <<>>
    ELSE IF ch = <<>> THEN FALSE
    ELSE IF Len(ps[1]) > m
    THEN LET n == CeilDiv(Len(ps[1]), m)
         IN  /\ n <= Len(ch)
             /\ Concat(SubSeq(ch, 1, n)) = ps[1]
             /\ Covers(SubSeq(ch, n + 1, Len(ch)), Tail(ps), m)
    ELSE LET g == Split(ch[1])
         IN  /\ Len(g) <= Len(ps)
             /\ g = SubSeq(ps, 1, Len(g))
             /\ Covers(Tail(ch), SubSeq(ps, Len(g) + 1, Len(ps)), m)

\* C2: the chunks chunk_text returns cover the trimmed non-empty paragraphs
\* of the input exactly once each, in order: joined chunks split back into
\* whole paragraphs and the slices of a hard-split paragraph concatenate
\* back to it.
C2_ParagraphPreservation ==
    (pc = "chunk_done" /\ s # <<>>) =>
        /\ Covers(result.value, Paragraphs(s), max_len)
        /\ result.value = chunk_text(s, max_len)

\* a text with a hard-split paragraph next to paragraphs joined into one chunk
C2_Witness ==
    /\ pc = "chunk_done"
    /\ Len(paragraphs) >= 3
    /\ \E k \in 1..Len(paragraphs) : Len(paragraphs[k]) > max_len
    /\ \E k \in 1..Len(chunks) : Len(Split(chunks[k])) >= 2

\* the text is not already the blank-line join of its paragraphs
C2_WitnessTrim ==
    /\ pc = "chunk_done"
    /\ Len(paragraphs) >= 2
    /\ s # Join(paragraphs)

\* C10: a paragraph no longer than max_len joins the buffer exactly when the
\* buffered paragraphs, joined by the 2-character separator, plus the
\* paragraph plus the separator overhead (2 for a non-empty buffer) stay
\* within max_len; otherwise the buffer is flushed before it.
C10_GreedyFit ==
    [][(/\ pc = "chunk_loop"
        /\ idx <= Len(paragraphs)
        /\ Len(paragraphs[idx]) <= max_len
        /\ idx' = idx + 1)
       => LET p == paragraphs[idx]
              fits == Len(Join(buf)) + Len(p) + (IF buf # <<>> THEN 2 ELSE 0) <= max_len
          IN  IF fits
              THEN buf' = Append(buf, p) /\ chunks' = chunks
              ELSE buf' = <<p>> /\ chunks' = Append(chunks, Join(buf))]_vars

-----------------------------------------------------------------------------
(* Properties of translate_text *)

\* C3: with every chunk translated successfully, the translator was called
\* once per chunk in chunk order and the result is the translations of the
\* chunks, in chunk order, joined by blank lines.
C3_TranslationOrder ==
    /\ pc \in {"translate_loop", "translate_raised"} =>
          /\ Len(calls) <= Len(chunks)
          /\ calls = SubSeq(chunks, 1, Len(calls))
          /\ \A k \in 1..Len(translated_parts) :
                translated_parts[k] = GoogleTranslate(chunks[k])
    /\ (pc = "translate_done" /\ text # <<>>) =>
          /\ chunks = chunk_text(text, 4500)
          /\ calls = chunks
          /\ result.kind = "return"
          /\ result.value = Join([k \in 1..Len(chunks) |-> GoogleTranslate(chunks[k])])

\* three or more chunks, no two alike, all translated
C3_Witness ==
    /\ pc = "translate_done"
    /\ Len(chunks) >= 3
    /\ \A j, k \in 1..Len(chunks) : j # k => chunks[j] # chunks[k]
    /\ \E k \in 1..Len(chunks) : Len(Split(chunks[k])) >= 2
    /\ result.value # Join(chunks)

\* C9: chunk_text on the empty text returns the empty list whatever max_len
\* is, and translate_text on the empty text returns the empty string and
\* never calls the translator.
C9_EmptyInput ==
    /\ (pc = "chunk_loop") => s # <<>>
    /\ (pc = "chunk_done" /\ s = <<>>) => result = Returned(<<>>)
    /\ (pc \in {"translate_loop", "translate_raised"}) => text # <<>>
    /\ (pc = "translate_done" /\ text = <<>>) =>
          /\ result = Returned(<<>>)
          /\ calls = <<>>

\* translate_text has returned on the empty text
C9_Witness ==
    /\ pc = "translate_done"
    /\ text = <<>>
    /\ result.kind = "return"

-----------------------------------------------------------------------------
(* Properties of extract_text_with_ocr and translate_pdf_endpoint *)

\* "\n\n===== Page k =====\n" for the 1-based page number k < 10
MarkerOf(k) ==
    <<NL, NL, "=", "=", "=", "=", "=", " ", "P", "a", "g", "e", " ",
      Digit(k), " ", "=", "=", "=", "=", "=", NL>>

\* the text of page k: what OCR reads on a page with fewer than 40
\* non-whitespace native characters, the native text otherwise
TextOfPage(k) ==
    IF MeaningfulLen(doc.pages[k].native) < 40
    THEN doc.pages[k].ocr
    ELSE doc.pages[k].native

Extracting == pc \in {"extract_loop", "endpoint_check"}

\* C5: the extracted text is the trim of the concatenation, in page order, of
\* one section per page: the marker with the page's 1-based number, then the
\* page's trimmed text (native or OCR, empty or not).
C5_PageOrder ==
    /\ Extracting =>
          /\ Len(parts) = pno - 1
          /\ \A k \in 1..Len(parts) : parts[k] = MarkerOf(k) \o Strip(TextOfPage(k))
    /\ pc = "endpoint_check" =>
          /\ Len(parts) = Len(doc.pages)
          /\ english_text =
                Strip(Concat([k \in 1..Len(doc.pages) |->
                                 MarkerOf(k) \o Strip(TextOfPage(k))]))

\* two pages extracted, the first with no text at all, the second read by OCR
C5_Witness ==
    /\ pc = "endpoint_check"
    /\ Len(doc.pages) = 2
    /\ TextOfPage(1) = <<>>
    /\ ocr_calls = <<1, 2>>
    /\ TextOfPage(2) # Strip(TextOfPage(2))

\* C6: OCR is invoked on a page exactly when its native text has fewer than
\* 40 non-whitespace characters, and then the OCR output replaces the native
\* text; a page with 40 or more keeps its native text.
C6_FallbackTrigger ==
    Extracting =>
        /\ \A j, k \in 1..Len(ocr_calls) : j # k => ocr_calls[j] # ocr_calls[k]
        /\ \A k \in 1..(pno - 1) :
              LET n == MeaningfulLen(doc.pages[k].native)
                  ocred == \E j \in 1..Len(ocr_calls) : ocr_calls[j] = k
              IN  /\ ocred <=> n < 40
                  /\ k <= Len(parts)
                  /\ parts[k] = MarkerOf(k) \o
                        Strip(IF ocred THEN doc.pages[k].ocr ELSE doc.pages[k].native)

\* a page of 39 letters went to OCR, a page of 40 letters with a different
\* OCR reading did not
C6_Witness ==
    /\ pc = "extract_loop"
    /\ pno = 3
    /\ MeaningfulLen(doc.pages[1].native) = 39
    /\ MeaningfulLen(doc.pages[2].native) = 40
    /\ doc.pages[2].ocr # <<>>
    /\ ocr_calls = <<1>>

\* C4: once the translator has failed on a chunk, translate_text has no return
\* value, and the request ends with the one 500 failure response, never with a
\* 200 carrying the chunks translated before the failure.
C4_NoPartialOutput ==
    /\ pc = "translate_raised" => result = Raised
    /\ result.kind = "raise" =>
          /\ status \in {0, 500}
          /\ body \in {<<>>, FailureBody}
          /\ pc = "endpoint_done" => (status = 500 /\ body = FailureBody)
    /\ (req.app = "OCR_Trans" /\ status = 200) =>
          (result.kind = "return" /\ Len(translated_parts) = Len(chunks))

\* the translator failed on the second of three chunks and the request is over
C4_Witness ==
    /\ pc = "endpoint_done"
    /\ result.kind = "raise"
    /\ Len(chunks) = 3
    /\ Len(calls) = 2
    /\ Len(translated_parts) = 1

\* every page of the document has no text, even after the OCR fallback
AllPagesEmpty == \A k \in 1..Len(doc.pages) : Strip(TextOfPage(k)) = <<>>

\* C7: a document of one or more pages that are all empty after the OCR
\* fallback ends the request with 422 and the translator is never called.
C7_EmptyExtractionIs422 ==
    (/\ pc = "endpoint_done"
     /\ req.app = "OCR_Trans"
     /\ ~BadRequest(req)
     /\ exc \notin {"save", "open"}
     /\ Len(doc.pages) >= 1
     /\ AllPagesEmpty)
    => (status = 422 /\ calls = <<>>)

\* C8: when the request is over, in either application, the temporary file
\* is gone.
C8_TempFileRemoved ==
    pc \in {"endpoint_done", "pdf_done"} => ~tmp_exists

====
